---- MODULE Spec2Model ----
(***************************************************************************)
(* Model of the request-time recommendation engine, backend/ml/predict.py. *)
(*                                                                         *)
(* One process run is a sequence of steps: read the request from standard  *)
(* input, take top_k, load the artifacts and the catalog, filter, fill in  *)
(* missing feature columns, score, adjust for the goal, rank, write the    *)
(* response and exit.  Quantities are integers: cost in cents, nutrients   *)
(* in whole units, probabilities in hundredths.                            *)
(***************************************************************************)
EXTENDS Integers, Sequences, FiniteSets, TLC

(***************************************************************************)
(* Bounds of the model.                                                    *)
(***************************************************************************)
\* longest catalog the process loads
MaxItems == 2
\* largest top_k a request asks for
MaxK == 3
\* longest catalog handed to the filter and the goal adjuster on their own
MaxRows == 2

(***************************************************************************)
(* Units and program constants.                                            *)
(***************************************************************************)
\* cost_per_serving is held in cents, weeklyBudget in whole currency units
InCents(units) == units * 100
\* probabilities are held in hundredths: the upper clip bound 1 is 100
ProbOne == 100
\* user_input.get('top_k', 5)
DefaultTopK == 5
\* user_profile.get('weeklyBudget', 100)
DefaultBudget == 100
\* budget / 21
MealsPerWeek == 21

(***************************************************************************)
(* Python dictionaries are functions on the keys that are present.         *)
(***************************************************************************)
EmptyDict == [k \in {} |-> k]

\* an optional entry: o is <<>> (key absent) or <<v>> (key present)
Entry(k, o) == IF o = <<>> THEN EmptyDict ELSE k :> o[1]

\* dict.get(k, default), also DataFrame.get and Series.get
Get(d, k, default) == IF k \in DOMAIN d THEN d[k] ELSE default

\* Python's None, what json.loads makes of a JSON null; no JSON string of the
\* requests is spelled like it
None == "None"

\* v is None: the test goes by the printed value, values of different kinds
\* cannot be compared
IsNone(v) == ToString(v) = ToString(None)

\* what json.loads returns for a text that is not a JSON object: None for null,
\* a str for a JSON string
NonObjectValues == {None, "healthy breakfast"}

\* v is a dict, so it has the get method
IsDict(v) == ToString(v) \notin {ToString(x) : x \in NonObjectValues}

(***************************************************************************)
(* The catalog: a DataFrame is its set of columns and its rows, each row a *)
(* function from the columns to values.                                    *)
(***************************************************************************)
\* numerical_features with the two derived features ahead of their base columns
numerical_features_derived_first ==
    << "nutrient_density", "sugar_to_carb_ratio",
       "calories", "protein_g", "fat_g", "carbs_g", "fiber_g", "sugars_g",
       "sodium_mg", "vitamin_a_iu", "vitamin_c_mg", "calcium_mg", "iron_mg",
       "potassium_mg", "magnesium_mg", "zinc_mg", "phosphorus_mg",
       "cost_per_serving" >>

numerical_features ==
    << "calories", "protein_g", "fat_g", "carbs_g", "fiber_g", "sugars_g",
       "sodium_mg", "vitamin_a_iu", "vitamin_c_mg", "calcium_mg", "iron_mg",
       "potassium_mg", "magnesium_mg", "zinc_mg", "phosphorus_mg",
       "cost_per_serving", "nutrient_density", "sugar_to_carb_ratio" >>

categorical_features == << "food_category" >>

binary_features == << "is_glutenfree", "is_nutfree", "is_vegan" >>

Range(s) == {s[i] : i \in DOMAIN s}

FeatureColumns ==
    Range(numerical_features) \cup Range(categorical_features) \cup Range(binary_features)

AllColumns == {"description"} \cup FeatureColumns

\* derived features are held in thousandths
InThousandths(x) == x * 1000

\* compute_derived_features: the two derived columns of the processed catalog
DerivedDensity(protein, fiber, calories) ==
    InThousandths(protein + fiber) \div (calories + 1)

DerivedRatio(sugars, carbs) == InThousandths(sugars) \div (carbs + 1)

\* a catalog row with every column, from the values that matter to the engine
Food(name, cat, cal, prot, carb, fib, sug, sod, cost, gf, nf, vg) ==
    [c \in AllColumns |->
        CASE c = "description" -> name
          [] c = "food_category" -> cat
          [] c = "calories" -> cal
          [] c = "protein_g" -> prot
          [] c = "carbs_g" -> carb
          [] c = "fiber_g" -> fib
          [] c = "sugars_g" -> sug
          [] c = "sodium_mg" -> sod
          [] c = "cost_per_serving" -> cost
          [] c = "is_glutenfree" -> gf
          [] c = "is_nutfree" -> nf
          [] c = "is_vegan" -> vg
          [] c = "nutrient_density" -> DerivedDensity(prot, fib, cal)
          [] c = "sugar_to_carb_ratio" -> DerivedRatio(sug, carb)
          [] OTHER -> 1]

Tofu == Food("Tofu", "legumes", 180, 22, 10, 6, 3, 300, 150, 1, 1, 1)
Steak == Food("Steak", "proteins", 400, 30, 0, 0, 0, 600, 450, 1, 1, 0)
Bread == Food("Bread", "grains", 250, 8, 45, 3, 5, 500, 100, 0, 1, 1)
NutBar == Food("Nut bar", "nuts_seeds", 200, 15, 20, 5, 12, 100, 200, 1, 0, 1)

FoodPool == {Tofu, Steak, Bread, NutBar}

\* the columns a catalog file may lack
OptionalColumns ==
    {"is_vegan", "is_glutenfree", "is_nutfree", "cost_per_serving",
     "nutrient_density", "sugar_to_carb_ratio"}

Restrict(row, cols) == [c \in cols |-> row[c]]

SeqsUpTo(S, n) == UNION {[1..m -> S] : m \in 0..n}

DataFrame(cols, rows) ==
    [columns |-> cols, rows |-> [i \in DOMAIN rows |-> Restrict(rows[i], cols)]]

EmptyFrame == [columns |-> {}, rows |-> <<>>]

(***************************************************************************)
(* The request.                                                            *)
(***************************************************************************)
\* the six spellings the filter looks for, and spellings it does not
RestrictionWords ==
    {"vegan", "Vegan", "VEGAN", "gluten-free", "Gluten Free", "Gluten-Free",
     "nut-free", "Nut Allergy", "NUT-FREE"}

Goals == {"Weight Loss", "Muscle Gain", "Heart Health", "Budget"}

UserProfiles(restrictionOpts, budgetOpts, goalOpts) ==
    {Entry("dietaryRestrictions", r) @@ Entry("weeklyBudget", b) @@ Entry("primaryGoal", g) :
        r \in restrictionOpts, b \in budgetOpts, g \in goalOpts}

Requests(profiles, topKOpts) ==
    {("userProfile" :> p) @@ ("query" :> "healthy breakfast") @@ Entry("top_k", k) :
        p \in profiles, k \in topKOpts}

\* the test input main() uses when standard input is a terminal
TestInput ==
    [userProfile |-> [age |-> 30, gender |-> "Female", primaryGoal |-> "Weight Loss",
                      dietaryRestrictions |-> {"Vegan"}, weeklyBudget |-> 75],
     query |-> "healthy breakfast",
     top_k |-> 5]

(***************************************************************************)
(* filter_by_user_constraints.                                             *)
(***************************************************************************)
\* df[mask]: the rows whose mask entry is true, in their order
Select(df, mask) ==
    LET kept == SelectSeq([i \in DOMAIN df.rows |-> i], LAMBDA i : mask[i])
    IN  [columns |-> df.columns, rows |-> [n \in DOMAIN kept |-> df.rows[kept[n]]]]

\* 'Vegan' in restrictions or 'vegan' in restrictions
Wants(restrictions, label, slug) == label \in restrictions \/ slug \in restrictions

\* FlagFilter that drops every row when the flag column does not exist
FlagFilterStrict(df, restrictions, label, slug, col) ==
    IF Wants(restrictions, label, slug)
    THEN Select(df, [i \in DOMAIN df.rows |-> col \in df.columns /\ df.rows[i][col] = 1])
    ELSE df

\* one dietary restriction: keep the rows whose flag is 1, if the column exists
FlagFilter(df, restrictions, label, slug, col) ==
    IF Wants(restrictions, label, slug) /\ col \in df.columns
    THEN Select(df, [i \in DOMAIN df.rows |-> df.rows[i][col] = 1])
    ELSE df

\* WithinBudget with the weekly budget spread over 7 servings instead of 21
WithinBudgetPerDay(cost, budget) == cost * 7 <= InCents(budget)

\* cost_per_serving <= budget / 21, cost in cents
WithinBudget(cost, budget) == cost * MealsPerWeek <= InCents(budget)

BudgetFilter(df, budget) ==
    IF "cost_per_serving" \in df.columns
    THEN Select(df, [i \in DOMAIN df.rows |-> WithinBudget(df.rows[i]["cost_per_serving"], budget)])
    ELSE df

filter_by_user_constraints(df, user_profile) ==
    LET restrictions == Get(user_profile, "dietaryRestrictions", {})
        budget == Get(user_profile, "weeklyBudget", DefaultBudget)
        vegan == FlagFilter(df, restrictions, "Vegan", "vegan", "is_vegan")
        gluten == FlagFilter(vegan, restrictions, "Gluten Free", "gluten-free", "is_glutenfree")
        nut == FlagFilter(gluten, restrictions, "Nut Allergy", "nut-free", "is_nutfree")
    IN  BudgetFilter(nut, budget)

\* whether the filter selects rows at all: each df[mask] makes a new frame
Masked(df, user_profile) ==
    LET restrictions == Get(user_profile, "dietaryRestrictions", {})
    IN  \/ Wants(restrictions, "Vegan", "vegan") /\ "is_vegan" \in df.columns
        \/ Wants(restrictions, "Gluten Free", "gluten-free") /\ "is_glutenfree" \in df.columns
        \/ Wants(restrictions, "Nut Allergy", "nut-free") /\ "is_nutfree" \in df.columns
        \/ "cost_per_serving" \in df.columns

\* FilteredObject without the copy: an unmasked result is the catalog itself
FilteredObjectNoCopy(df, user_profile) ==
    IF Masked(df, user_profile) THEN "new" ELSE "catalog"

\* the frame object the filter returns: filtered_df = df.copy() comes first, so
\* it is a new frame whether or not a mask follows
FilteredObject(df, user_profile) ==
    IF Masked(df, user_profile) THEN "new" ELSE "new"

(***************************************************************************)
(* The feature materializer: predict_top_meals, "Ensure all required       *)
(* columns exist".                                                         *)
(***************************************************************************)
\* the value a missing column gets in one row
DefaultValue(kind, col, row) ==
    CASE kind = "numerical" /\ col = "nutrient_density" ->
            InThousandths(Get(row, "protein_g", 0) + Get(row, "fiber_g", 0))
                \div (Get(row, "calories", 1) + 1)
      [] kind = "numerical" /\ col = "sugar_to_carb_ratio" ->
            InThousandths(Get(row, "sugars_g", 0)) \div (Get(row, "carbs_g", 1) + 1)
      [] kind = "categorical" -> "unknown"
      [] OTHER -> 0

\* eligible_foods[col] = ...
AddColumn(df, kind, col) ==
    [columns |-> df.columns \cup {col},
     rows |-> [i \in DOMAIN df.rows |-> df.rows[i] @@ (col :> DefaultValue(kind, col, df.rows[i]))]]

RECURSIVE FillMissing(_, _, _, _)
\* for col in cols: if col not in eligible_foods.columns: ...
FillMissing(df, kind, cols, i) ==
    IF i > Len(cols) THEN df
    ELSE FillMissing(IF cols[i] \in df.columns THEN df ELSE AddColumn(df, kind, cols[i]),
                     kind, cols, i + 1)

Materialize(df) ==
    LET numerical == FillMissing(df, "numerical", numerical_features, 1)
        categorical == FillMissing(numerical, "categorical", categorical_features, 1)
    IN  FillMissing(categorical, "binary", binary_features, 1)

(***************************************************************************)
(* adjust_for_goals.                                                       *)
(***************************************************************************)
\* the goal masks with inclusive comparisons
GoalMaskInclusive(goal, row) ==
    CASE goal = "Weight Loss" -> row["calories"] <= 300 /\ row["protein_g"] >= 15
      [] goal = "Muscle Gain" -> row["protein_g"] >= 20
      [] goal = "Heart Health" -> row["sodium_mg"] <= 500 /\ row["fiber_g"] >= 5
      [] OTHER -> FALSE

\* the rows the goal boosts
GoalMask(goal, row) ==
    CASE goal = "Weight Loss" -> row["calories"] < 300 /\ row["protein_g"] > 15
      [] goal = "Muscle Gain" -> row["protein_g"] > 20
      [] goal = "Heart Health" -> row["sodium_mg"] < 500 /\ row["fiber_g"] > 5
      [] OTHER -> FALSE

\* the multiplier of the goal, in tenths: 1.2, 1.3, 1.2
GoalTenths(goal) ==
    CASE goal = "Weight Loss" -> 12
      [] goal = "Muscle Gain" -> 13
      [] goal = "Heart Health" -> 12
      [] OTHER -> 10

\* adjusted_probs[mask] *= m
Boost(p, tenths) == (p * tenths) \div 10

\* clip that bounds a value from above only
clipUpper(x, lo, hi) == IF x > hi THEN hi ELSE x

\* np.clip
clip(x, lo, hi) == IF x < lo THEN lo ELSE IF x > hi THEN hi ELSE x

adjust_for_goals(ps, df, user_profile) ==
    LET goal == Get(user_profile, "primaryGoal", "")
    IN  [i \in DOMAIN ps |->
            clip(IF GoalMask(goal, df.rows[i]) THEN Boost(ps[i], GoalTenths(goal)) ELSE ps[i],
                 0, ProbOne)]

(***************************************************************************)
(* Ranking and the recommendation records.                                 *)
(***************************************************************************)
\* np.argsort(probs): the default sort is not stable, so equal values may come
\* in any order
ArgSorts(ps) ==
    {perm \in Permutations(DOMAIN ps) :
        \A i, j \in DOMAIN ps : i < j => ps[perm[i]] <= ps[perm[j]]}

\* Reversed without the reversal: the ascending order of argsort is kept
NotReversed(s) == s

\* s[::-1]
Reversed(s) == [i \in DOMAIN s |-> s[Len(s) + 1 - i]]

Min(a, b) == IF a <= b THEN a ELSE b
Max(a, b) == IF a >= b THEN a ELSE b

\* SliceTo that stops one element early
SliceToShort(s, k) ==
    IF k >= 1 THEN SubSeq(s, 1, Min(k - 1, Len(s))) ELSE SubSeq(s, 1, Max(Len(s) + k - 1, 0))

\* s[:k] for an integer k
SliceTo(s, k) ==
    IF k >= 0 THEN SubSeq(s, 1, Min(k, Len(s))) ELSE SubSeq(s, 1, Max(Len(s) + k, 0))

\* the index arrays np.argsort(probs)[::-1][:top_k] can be
TopIndices(ps, k) == {SliceTo(Reversed(perm), k) : perm \in ArgSorts(ps)}

\* the tiers with inclusive thresholds
ConfidenceInclusive(prob) ==
    IF prob >= 80 THEN "high" ELSE IF prob >= 60 THEN "medium" ELSE "moderate"

Confidence(prob) ==
    IF prob > 80 THEN "high" ELSE IF prob > 60 THEN "medium" ELSE "moderate"

\* a list built by appending under conditions
When(cond, x) == IF cond THEN << x >> ELSE << >>

\* the reasons with an inclusive sugar threshold
ReasonsInclusive(food) ==
    When(food["protein_g"] > 15, << "High protein", food["protein_g"] >>)
    \o When(food["fiber_g"] > 5, << "High fiber", food["fiber_g"] >>)
    \o When(food["calories"] < 200, << "Low calorie", food["calories"] >>)
    \o When(food["sugars_g"] <= 5, << "Low sugar", food["sugars_g"] >>)
    \o When(food["cost_per_serving"] < InCents(2), << "Budget-friendly", food["cost_per_serving"] >>)

Reasons(food) ==
    When(food["protein_g"] > 15, << "High protein", food["protein_g"] >>)
    \o When(food["fiber_g"] > 5, << "High fiber", food["fiber_g"] >>)
    \o When(food["calories"] < 200, << "Low calorie", food["calories"] >>)
    \o When(food["sugars_g"] < 5, << "Low sugar", food["sugars_g"] >>)
    \o When(food["cost_per_serving"] < InCents(2), << "Budget-friendly", food["cost_per_serving"] >>)

Dietary(food) ==
    When(Get(food, "is_vegan", 0) = 1, "Vegan")
    \o When(Get(food, "is_glutenfree", 0) = 1, "Gluten-free")
    \o When(Get(food, "is_nutfree", 0) = 1, "Nut-free")

Recommendation(food, prob) ==
    [name |-> food["description"],
     category |-> Get(food, "food_category", "Unknown"),
     fit_score |-> prob,
     confidence |-> Confidence(prob),
     nutrition |-> [calories |-> food["calories"], protein |-> food["protein_g"],
                    carbs |-> food["carbs_g"], fat |-> food["fat_g"],
                    fiber |-> food["fiber_g"], sugars |-> food["sugars_g"]],
     cost |-> food["cost_per_serving"],
     reasons |-> Reasons(food),
     dietary_info |-> Dietary(food)]

Recommendations(df, ps, top_indices) ==
    [n \in DOMAIN top_indices |-> Recommendation(df.rows[top_indices[n]], ps[top_indices[n]])]

NoEligible ==
    [recommendations |-> << >>,
     message |-> "No foods match your dietary restrictions and budget. Try relaxing some constraints."]

\* a response that counts the recommendations it returns
ResponseCountsReturned(recommendations, query, df, user_profile) ==
    [recommendations |-> recommendations,
     query |-> query,
     total_eligible |-> Len(recommendations),
     model_version |-> "1.0",
     user_goal |-> Get(user_profile, "primaryGoal", "General Health")]

Response(recommendations, query, df, user_profile) ==
    [recommendations |-> recommendations,
     query |-> query,
     total_eligible |-> Len(df.rows),
     model_version |-> "1.0",
     user_goal |-> Get(user_profile, "primaryGoal", "General Health")]

(***************************************************************************)
(* What the environment hands the process.                                 *)
(***************************************************************************)
\* requests on standard input
RequestProfiles ==
    UserProfiles({<< >>, << {"vegan"} >>, << {"VEGAN"} >>},
                 {<< >>, << 42 >>},
                 {<< >>, << "Muscle Gain" >>, << None >>})

TopKs == {<< >>} \cup {<< k >> : k \in (-1)..MaxK}

StdinTexts ==
    {[kind |-> "malformed"]}
        \cup {[kind |-> "json", value |-> r] : r \in Requests(RequestProfiles, TopKs)}

\* requests that are valid JSON the pipeline cannot use: a weeklyBudget of null,
\* dietaryRestrictions of null, a top-level value that is not an object
NullBudgetTexts ==
    {[kind |-> "json", value |-> r] :
        r \in Requests(UserProfiles({<< >>, << {"vegan"} >>}, {<< None >>}, {<< >>}), {<< >>})}

NullRestrictionsTexts ==
    {[kind |-> "json", value |-> r] :
        r \in Requests(UserProfiles({<< None >>}, {<< >>, << 42 >>}, {<< >>}), {<< >>})}

NonObjectTexts == {[kind |-> "json", value |-> v] : v \in NonObjectValues}

\* the artifact files, in the order load_models opens them
ArtifactFiles ==
    << "rf_model.pkl", "preprocessor.pkl", "feature_selector.pkl", "feature_names.json" >>

\* the catalog files, the preferred one first
CatalogFiles == {"processed_data.csv", "usda-foods.csv"}

\* the catalog files: the processed one has every column, the raw one may lack
\* the derived columns, or the flags and the cost as well
ProcessedSchemas == {AllColumns}

RawSchemas == {AllColumns \ {"nutrient_density", "sugar_to_carb_ratio"},
               AllColumns \ OptionalColumns}

CatalogRows == SeqsUpTo({Tofu, Steak, Bread}, MaxItems)

\* the probabilities the classifier gives: predict_proba(...)[:, 1]
ModelProbs == {60, 80, 90}

(***************************************************************************)
(* State.                                                                  *)
(***************************************************************************)
VARIABLES
    pc,              \* the step the process is at
    trace,           \* the calls made so far, in order
    input_json,      \* what sys.stdin.read() returned
    user_input,      \* the parsed request
    top_k,           \* << k >> once main() has taken it
    artifacts_found, \* << files >> once load_models has looked for the artifacts
    models,          \* "unloaded" or "loaded": the four artifacts
    catalogs_found,  \* << files >> once load_food_database has looked for the catalogs
    db_source,       \* the catalog file that was read, "none" before, "missing" if neither
    food_db,         \* the loaded catalog
    eligible_foods,  \* the filtered (then materialized) catalog
    eligible_ref,    \* the frame object eligible_foods names: "catalog" or "new"
    probs,           \* the classifier's probability per eligible row
    adjusted_probs,  \* what adjust_for_goals returns
    top_indices,     \* the row positions chosen for the response, best first
    result,          \* what predict_top_meals returns
    stdout,          \* documents written to standard output
    stderr,          \* documents written to standard error
    exit_code        \* << c >> once the process has exited

vars == << pc, trace, input_json, user_input, top_k, artifacts_found, models,
           catalogs_found, db_source, food_db, eligible_foods, eligible_ref, probs,
           adjusted_probs, top_indices, result, stdout, stderr, exit_code >>

Unread == [kind |-> "unread"]

Init ==
    /\ pc = "read_input"
    /\ trace = << >>
    /\ input_json = Unread
    /\ user_input = EmptyDict
    /\ top_k = << >>
    /\ artifacts_found = << >>
    /\ models = "unloaded"
    /\ catalogs_found = << >>
    /\ db_source = "none"
    /\ food_db = EmptyFrame
    /\ eligible_foods = EmptyFrame
    /\ eligible_ref = "none"
    /\ probs = << >>
    /\ adjusted_probs = << >>
    /\ top_indices = << >>
    /\ result = EmptyDict
    /\ stdout = << >>
    /\ stderr = << >>
    /\ exit_code = << >>

(***************************************************************************)
(* main(): the steps of one process run.                                   *)
(***************************************************************************)
\* Fail that exits with the default code 0
FailExitZero(message, detail) ==
    /\ stderr' = Append(stderr, [error |-> message, detail |-> detail])
    /\ exit_code' = << 0 >>
    /\ pc' = "exited"

\* print(json.dumps({'error': ...}), file=sys.stderr); sys.exit(1)
\* detail is the str(e) the message ends with
Fail(message, detail) ==
    /\ stderr' = Append(stderr, [error |-> message, detail |-> detail])
    /\ exit_code' = << 1 >>
    /\ pc' = "exited"

\* sys.stdin.isatty(): the built-in test input is used, nothing is read
ReadInputTty ==
    /\ pc = "read_input"
    /\ user_input' = TestInput
    /\ stderr' = Append(stderr, [notice |-> "No input provided. Using test data..."])
    /\ trace' = Append(trace, "test_input")
    /\ pc' = "get_top_k"
    /\ UNCHANGED << input_json, top_k, artifacts_found, models, db_source, food_db,
                    eligible_foods, probs, adjusted_probs, result, stdout, exit_code,
                    catalogs_found, eligible_ref, top_indices >>

\* sys.stdin.read(); json.loads succeeds
ReadInputJson ==
    /\ pc = "read_input"
    /\ \E text \in StdinTexts :
          /\ text.kind = "json"
          /\ input_json' = text
          /\ user_input' = text.value
    /\ trace' = trace \o << "stdin.read", "json.loads" >>
    /\ pc' = "get_top_k"
    /\ UNCHANGED << top_k, artifacts_found, models, db_source, food_db, eligible_foods,
                    probs, adjusted_probs, result, stdout, stderr, exit_code,
                    catalogs_found, eligible_ref, top_indices >>

\* sys.stdin.read(); json.loads succeeds, with a value the pipeline cannot use
ReadInputUnusable ==
    /\ pc = "read_input"
    /\ \/ \E text \in NullBudgetTexts : input_json' = text /\ user_input' = text.value
       \/ \E text \in NullRestrictionsTexts : input_json' = text /\ user_input' = text.value
       \/ \E text \in NonObjectTexts : input_json' = text /\ user_input' = text.value
    /\ trace' = trace \o << "stdin.read", "json.loads" >>
    /\ pc' = "get_top_k"
    /\ UNCHANGED << top_k, artifacts_found, models, db_source, food_db, eligible_foods,
                    probs, adjusted_probs, result, stdout, stderr, exit_code,
                    catalogs_found, eligible_ref, top_indices >>

\* ReadInputMalformed with the error caught by the generic handler
ReadInputMalformedGeneric ==
    /\ pc = "read_input"
    /\ \E text \in StdinTexts :
          /\ text.kind = "malformed"
          /\ input_json' = text
    /\ trace' = trace \o << "stdin.read", "json.loads" >>
    /\ Fail("Prediction failed", "JSONDecodeError")
    /\ UNCHANGED << user_input, top_k, artifacts_found, models, db_source, food_db,
                    eligible_foods, probs, adjusted_probs, result, stdout,
                    catalogs_found, eligible_ref, top_indices >>

\* sys.stdin.read(); json.loads raises JSONDecodeError
ReadInputMalformed ==
    /\ pc = "read_input"
    /\ \E text \in StdinTexts :
          /\ text.kind = "malformed"
          /\ input_json' = text
    /\ trace' = trace \o << "stdin.read", "json.loads" >>
    /\ Fail("Invalid JSON input", "JSONDecodeError")
    /\ UNCHANGED << user_input, top_k, artifacts_found, models, db_source, food_db,
                    eligible_foods, probs, adjusted_probs, result, stdout,
                    catalogs_found, eligible_ref, top_indices >>

\* top_k = user_input.get('top_k', 5)
GetTopK ==
    /\ pc = "get_top_k"
    /\ IsDict(user_input)
    /\ top_k' = << Get(user_input, "top_k", DefaultTopK) >>
    /\ pc' = "load_models"
    /\ UNCHANGED << trace, input_json, user_input, artifacts_found, models, db_source,
                    food_db, eligible_foods, probs, adjusted_probs, result, stdout, stderr,
                    exit_code,
                    catalogs_found, eligible_ref, top_indices >>

\* user_input.get raises AttributeError: the value is not a dict; the generic
\* handler of main() reports it
GetTopKFails ==
    /\ pc = "get_top_k"
    /\ ~IsDict(user_input)
    /\ Fail("Prediction failed", "AttributeError")
    /\ UNCHANGED << trace, input_json, user_input, top_k, artifacts_found, models,
                    db_source, food_db, eligible_foods, probs, adjusted_probs, result,
                    stdout, catalogs_found, eligible_ref, top_indices >>

\* load_models(): every artifact file is there
LoadModels ==
    /\ pc = "load_models"
    /\ artifacts_found' = << Range(ArtifactFiles) >>
    /\ models' = "loaded"
    /\ trace' = Append(trace, "load_models")
    /\ pc' = "load_food_database"
    /\ UNCHANGED << input_json, user_input, top_k, db_source, food_db, eligible_foods,
                    probs, adjusted_probs, result, stdout, stderr, exit_code,
                    catalogs_found, eligible_ref, top_indices >>

\* the first file, in load order, that is not there
FirstMissing(present) ==
    ArtifactFiles[CHOOSE i \in DOMAIN ArtifactFiles :
                      /\ ArtifactFiles[i] \notin present
                      /\ \A j \in 1..(i - 1) : ArtifactFiles[j] \in present]

\* LoadModelsMissing that only insists on the classifier file
LoadModelsClassifierOnly ==
    /\ pc = "load_models"
    /\ \E present \in SUBSET Range(ArtifactFiles) :
          /\ present # Range(ArtifactFiles)
          /\ artifacts_found' = << present >>
          /\ IF "rf_model.pkl" \in present
             THEN /\ models' = "loaded"
                  /\ pc' = "load_food_database"
                  /\ UNCHANGED << stderr, exit_code,
                    catalogs_found, eligible_ref, top_indices >>
             ELSE /\ models' = models
                  /\ Fail("Model files not found. Run train.py first.", FirstMissing(present))
    /\ trace' = Append(trace, "load_models")
    /\ UNCHANGED << input_json, user_input, top_k, db_source, food_db, eligible_foods,
                    probs, adjusted_probs, result, stdout,
                    catalogs_found, eligible_ref, top_indices >>

\* load_models(): some artifact file is missing, FileNotFoundError
LoadModelsMissing ==
    /\ pc = "load_models"
    /\ \E present \in SUBSET Range(ArtifactFiles) :
          /\ present # Range(ArtifactFiles)
          /\ artifacts_found' = << present >>
          /\ Fail("Model files not found. Run train.py first.", FirstMissing(present))
    /\ trace' = Append(trace, "load_models")
    /\ UNCHANGED << input_json, user_input, top_k, models, db_source, food_db,
                    eligible_foods, probs, adjusted_probs, result, stdout,
                    catalogs_found, eligible_ref, top_indices >>

\* load_food_database(): processed_data.csv is there, whether or not the raw
\* file is
LoadProcessed ==
    /\ pc = "load_food_database"
    /\ \E present \in SUBSET CatalogFiles :
          /\ "processed_data.csv" \in present
          /\ catalogs_found' = << present >>
    /\ \E cols \in ProcessedSchemas, rows \in CatalogRows :
          food_db' = DataFrame(cols, rows)
    /\ db_source' = "processed_data.csv"
    /\ trace' = Append(trace, "load_food_database")
    /\ pc' = "filter"
    /\ UNCHANGED << input_json, user_input, top_k, artifacts_found, models, eligible_foods,
                    probs, adjusted_probs, result, stdout, stderr, exit_code,
                    eligible_ref, top_indices >>

\* LoadRaw that reads the raw file whenever it is there
LoadRawPreferred ==
    /\ pc = "load_food_database"
    /\ \E present \in SUBSET CatalogFiles :
          /\ "usda-foods.csv" \in present
          /\ catalogs_found' = << present >>
    /\ \E cols \in RawSchemas, rows \in CatalogRows :
          food_db' = DataFrame(cols, rows)
    /\ db_source' = "usda-foods.csv"
    /\ trace' = Append(trace, "load_food_database")
    /\ pc' = "filter"
    /\ UNCHANGED << input_json, user_input, top_k, artifacts_found, models, eligible_foods,
                    probs, adjusted_probs, result, stdout, stderr, exit_code,
                    eligible_ref, top_indices >>


\* load_food_database(): processed_data.csv is missing, usda-foods.csv is there
LoadRaw ==
    /\ pc = "load_food_database"
    /\ \E present \in SUBSET CatalogFiles :
          /\ "processed_data.csv" \notin present
          /\ "usda-foods.csv" \in present
          /\ catalogs_found' = << present >>
    /\ \E cols \in RawSchemas, rows \in CatalogRows :
          food_db' = DataFrame(cols, rows)
    /\ db_source' = "usda-foods.csv"
    /\ trace' = Append(trace, "load_food_database")
    /\ pc' = "filter"
    /\ UNCHANGED << input_json, user_input, top_k, artifacts_found, models, eligible_foods,
                    probs, adjusted_probs, result, stdout, stderr, exit_code,
                    eligible_ref, top_indices >>

\* LoadDatabaseMissing that reports the error and goes on with an empty catalog
LoadDatabaseMissingGoesOn ==
    /\ pc = "load_food_database"
    /\ catalogs_found' = << {} >>
    /\ db_source' = "missing"
    /\ trace' = Append(trace, "load_food_database")
    /\ stderr' = Append(stderr, [error |-> "Food database not found", detail |-> "usda-foods.csv"])
    /\ pc' = "filter"
    /\ UNCHANGED << input_json, user_input, top_k, artifacts_found, models, food_db,
                    eligible_foods, probs, adjusted_probs, result, stdout, exit_code,
                    eligible_ref, top_indices >>

\* load_food_database(): both files are missing
LoadDatabaseMissing ==
    /\ pc = "load_food_database"
    /\ catalogs_found' = << {} >>
    /\ db_source' = "missing"
    /\ trace' = Append(trace, "load_food_database")
    /\ Fail("Food database not found", "usda-foods.csv")
    /\ UNCHANGED << input_json, user_input, top_k, artifacts_found, models, food_db,
                    eligible_foods, probs, adjusted_probs, result, stdout,
                    eligible_ref, top_indices >>

\* predict_top_meals: user_profile = user_input.get('userProfile', {})
UserProfile == Get(user_input, "userProfile", EmptyDict)

\* budget / 21 with a budget of None, or 'Vegan' in restrictions with
\* restrictions of None: TypeError
FilterRaises ==
    \/ IsNone(Get(UserProfile, "weeklyBudget", DefaultBudget))
    \/ IsNone(Get(UserProfile, "dietaryRestrictions", {}))

\* FilterFails with the TypeError swallowed: nothing is eligible
FilterFailsEmpty ==
    /\ pc = "filter"
    /\ FilterRaises
    /\ eligible_foods' = [columns |-> food_db.columns, rows |-> << >>]
    /\ result' = NoEligible
    /\ pc' = "output"
    /\ UNCHANGED << trace, input_json, user_input, top_k, artifacts_found, models,
                    db_source, food_db, eligible_ref, probs, adjusted_probs, stdout,
                    stderr, exit_code, catalogs_found, top_indices >>

\* filter_by_user_constraints raises before it selects anything; the generic
\* handler of main() reports it
FilterFails ==
    /\ pc = "filter"
    /\ FilterRaises
    /\ Fail("Prediction failed", "TypeError")
    /\ UNCHANGED << trace, input_json, user_input, top_k, artifacts_found, models,
                    db_source, food_db, eligible_foods, eligible_ref, probs,
                    adjusted_probs, result, stdout, catalogs_found, top_indices >>

\* Filter without the early return for an empty result
FilterNoEarlyReturn ==
    /\ pc = "filter"
    /\ ~FilterRaises
    /\ eligible_foods' = filter_by_user_constraints(food_db, UserProfile)
    /\ eligible_ref' = FilteredObject(food_db, UserProfile)
    /\ pc' = "materialize"
    /\ trace' = Append(trace, "filter_by_user_constraints")
    /\ UNCHANGED << input_json, user_input, top_k, artifacts_found, models, db_source,
                    food_db, probs, adjusted_probs, result, stdout, stderr, exit_code,
                    catalogs_found, top_indices >>

\* eligible_foods = filter_by_user_constraints(food_db, user_profile), and the
\* early return when nothing is eligible
Filter ==
    /\ pc = "filter"
    /\ ~FilterRaises
    /\ LET eligible == filter_by_user_constraints(food_db, UserProfile)
       IN  /\ eligible_foods' = eligible
           /\ IF Len(eligible.rows) = 0
              THEN result' = NoEligible /\ pc' = "output"
              ELSE result' = result /\ pc' = "materialize"
    /\ eligible_ref' = FilteredObject(food_db, UserProfile)
    /\ trace' = Append(trace, "filter_by_user_constraints")
    /\ UNCHANGED << input_json, user_input, top_k, artifacts_found, models, db_source,
                    food_db, probs, adjusted_probs, stdout, stderr, exit_code,
                    catalogs_found, top_indices >>

\* the three loops that add the missing feature columns to the frame
\* eligible_foods names; the catalog changes with it if that frame is the catalog
MaterializeFeatures ==
    /\ pc = "materialize"
    /\ eligible_foods' = Materialize(eligible_foods)
    /\ food_db' = IF eligible_ref = "catalog" THEN Materialize(eligible_foods) ELSE food_db
    /\ pc' = "infer"
    /\ UNCHANGED << trace, input_json, user_input, top_k, artifacts_found, models,
                    db_source, probs, adjusted_probs, result, stdout, stderr,
                    exit_code,
                    catalogs_found, eligible_ref, top_indices >>

\* preprocessor.transform, feature_selector.transform, model.predict_proba: the
\* artifacts are opaque, they give one probability per row
Infer ==
    /\ pc = "infer"
    /\ probs' \in [DOMAIN eligible_foods.rows -> ModelProbs]
    /\ trace' = Append(trace, "predict_proba")
    /\ pc' = "adjust_for_goals"
    /\ UNCHANGED << input_json, user_input, top_k, artifacts_found, models, db_source,
                    food_db, eligible_foods, adjusted_probs, result, stdout, stderr,
                    exit_code,
                    catalogs_found, eligible_ref, top_indices >>

\* the artifacts do not fit the feature table: the exception reaches main()
InferFails ==
    /\ pc = "infer"
    /\ trace' = Append(trace, "predict_proba")
    /\ Fail("Prediction failed", "ValueError")
    /\ UNCHANGED << input_json, user_input, top_k, artifacts_found, models, db_source,
                    food_db, eligible_foods, probs, adjusted_probs, result, stdout,
                    catalogs_found, eligible_ref, top_indices >>

\* probs = adjust_for_goals(probs, eligible_foods, user_profile)
AdjustForGoals ==
    /\ pc = "adjust_for_goals"
    /\ adjusted_probs' = adjust_for_goals(probs, eligible_foods, UserProfile)
    /\ trace' = Append(trace, "adjust_for_goals")
    /\ pc' = "rank"
    /\ UNCHANGED << input_json, user_input, top_k, artifacts_found, models, db_source,
                    food_db, eligible_foods, probs, result, stdout, stderr, exit_code,
                    catalogs_found, eligible_ref, top_indices >>

\* top_indices, the recommendations loop and the returned dictionary
Rank ==
    /\ pc = "rank"
    /\ top_indices' \in TopIndices(adjusted_probs, top_k[1])
    /\ result' = Response(Recommendations(eligible_foods, adjusted_probs, top_indices'),
                          Get(user_input, "query", ""), eligible_foods, UserProfile)
    /\ pc' = "output"
    /\ UNCHANGED << trace, input_json, user_input, top_k, artifacts_found, models,
                    db_source, food_db, eligible_foods, probs, adjusted_probs, stdout,
                    stderr, exit_code,
                    catalogs_found, eligible_ref >>

\* print(json.dumps(result, indent=2)); sys.exit(0)
Output ==
    /\ pc = "output"
    /\ stdout' = Append(stdout, result)
    /\ trace' = Append(trace, "print")
    /\ exit_code' = << 0 >>
    /\ pc' = "exited"
    /\ UNCHANGED << input_json, user_input, top_k, artifacts_found, models, db_source,
                    food_db, eligible_foods, probs, adjusted_probs, result, stderr,
                    catalogs_found, eligible_ref, top_indices >>

Next ==
    \/ ReadInputTty
    \/ ReadInputJson
    \/ ReadInputUnusable
    \/ ReadInputMalformed
    \/ GetTopK
    \/ GetTopKFails
    \/ LoadModels
    \/ LoadModelsMissing
    \/ LoadProcessed
    \/ LoadRaw
    \/ LoadDatabaseMissing
    \/ Filter
    \/ FilterFails
    \/ MaterializeFeatures
    \/ Infer
    \/ InferFails
    \/ AdjustForGoals
    \/ Rank
    \/ Output

Spec == Init /\ [][Next]_vars

(***************************************************************************)
(* filter_by_user_constraints on its own: the run stands at the filter     *)
(* with any catalog and any profile of the sets below.                     *)
(***************************************************************************)
FilterSchemas ==
    {AllColumns \ missing :
        missing \in SUBSET {"is_vegan", "is_glutenfree", "is_nutfree", "cost_per_serving"}}

RestrictionSets ==
    {s \in SUBSET RestrictionWords : Cardinality(s) <= 1}
        \cup {{"vegan", "gluten-free"}, {"Vegan", "Gluten Free", "Nut Allergy"}}

FilterProfiles ==
    UserProfiles({<< >>} \cup {<< s >> : s \in RestrictionSets},
                 {<< >>, << 21 >>, << 42 >>},
                 {<< >>})

\* the state of a run that read the request and loaded df from the processed file
AtFilter(request, df) ==
    /\ pc = "filter"
    /\ trace = << "stdin.read", "json.loads", "load_models", "load_food_database" >>
    /\ input_json = [kind |-> "json", value |-> request]
    /\ user_input = request
    /\ top_k = << Get(request, "top_k", DefaultTopK) >>
    /\ artifacts_found = << Range(ArtifactFiles) >>
    /\ models = "loaded"
    /\ catalogs_found = << {"processed_data.csv", "usda-foods.csv"} >>
    /\ db_source = "processed_data.csv"
    /\ food_db = df
    /\ eligible_foods = EmptyFrame
    /\ eligible_ref = "none"
    /\ probs = << >>
    /\ adjusted_probs = << >>
    /\ top_indices = << >>
    /\ result = EmptyDict
    /\ stdout = << >>
    /\ stderr = << >>
    /\ exit_code = << >>

InitFilter ==
    \E profile \in FilterProfiles, cols \in FilterSchemas, rows \in SeqsUpTo(FoodPool, MaxRows) :
        AtFilter([userProfile |-> profile], DataFrame(cols, rows))

SpecFilter == InitFilter /\ [][Filter]_vars

(***************************************************************************)
(* adjust_for_goals on its own: the run stands at the goal adjuster with   *)
(* any probability vector, also one outside [0, 1].                        *)
(***************************************************************************)
AnyProbs == {-10, 0, 50, 80, 100, 120}

GoalProfiles == UserProfiles({<< >>}, {<< >>}, {<< >>} \cup {<< g >> : g \in Goals})

\* the state of a run that scored the rows of df, all of them eligible
AtAdjust(request, df, ps) ==
    /\ pc = "adjust_for_goals"
    /\ trace = << "stdin.read", "json.loads", "load_models", "load_food_database",
                  "filter_by_user_constraints", "predict_proba" >>
    /\ input_json = [kind |-> "json", value |-> request]
    /\ user_input = request
    /\ top_k = << Get(request, "top_k", DefaultTopK) >>
    /\ artifacts_found = << Range(ArtifactFiles) >>
    /\ models = "loaded"
    /\ catalogs_found = << {"processed_data.csv", "usda-foods.csv"} >>
    /\ db_source = "processed_data.csv"
    /\ food_db = df
    /\ eligible_foods = Materialize(filter_by_user_constraints(df, request["userProfile"]))
    /\ eligible_ref = FilteredObject(df, request["userProfile"])
    /\ probs = ps
    /\ adjusted_probs = << >>
    /\ top_indices = << >>
    /\ result = EmptyDict
    /\ stdout = << >>
    /\ stderr = << >>
    /\ exit_code = << >>

InitAdjust ==
    \E profile \in GoalProfiles, rows \in SeqsUpTo(FoodPool, MaxRows) \ {<< >>} :
        \E ps \in [DOMAIN rows -> AnyProbs] :
            AtAdjust([userProfile |-> profile], DataFrame(AllColumns, rows), ps)

SpecAdjust == InitAdjust /\ [][AdjustForGoals]_vars

(***************************************************************************)
(* The feature materialization on its own: the run stands after the filter *)
(* with a non-empty eligible table that lacks any of the columns below, or *)
(* every feature column.                                                   *)
(***************************************************************************)
MaterializeColumns ==
    {"calories", "protein_g", "carbs_g", "fiber_g", "sugars_g", "cost_per_serving",
     "nutrient_density", "sugar_to_carb_ratio", "food_category", "is_vegan"}

MaterializeSchemas ==
    {AllColumns \ missing : missing \in SUBSET MaterializeColumns} \cup {{"description"}}

\* the state of a run that filtered df for a request without a profile
AtMaterialize(request, df) ==
    /\ pc = "materialize"
    /\ trace = << "stdin.read", "json.loads", "load_models", "load_food_database",
                  "filter_by_user_constraints" >>
    /\ input_json = [kind |-> "json", value |-> request]
    /\ user_input = request
    /\ top_k = << Get(request, "top_k", DefaultTopK) >>
    /\ artifacts_found = << Range(ArtifactFiles) >>
    /\ models = "loaded"
    /\ catalogs_found = << {"usda-foods.csv"} >>
    /\ db_source = "usda-foods.csv"
    /\ food_db = df
    /\ eligible_foods = filter_by_user_constraints(df, Get(request, "userProfile", EmptyDict))
    /\ eligible_ref = FilteredObject(df, Get(request, "userProfile", EmptyDict))
    /\ probs = << >>
    /\ adjusted_probs = << >>
    /\ top_indices = << >>
    /\ result = EmptyDict
    /\ stdout = << >>
    /\ stderr = << >>
    /\ exit_code = << >>

InitMaterialize ==
    \E cols \in MaterializeSchemas, rows \in SeqsUpTo(FoodPool, MaxRows) \ {<< >>} :
        AtMaterialize([query |-> "healthy breakfast"], DataFrame(cols, rows))

SpecMaterialize == InitMaterialize /\ [][MaterializeFeatures]_vars

(***************************************************************************)
(* Properties.                                                             *)
(***************************************************************************)
Called(name) == name \in Range(trace)

\* every earlier-named call comes before every later-named one
Precedes(first, later) ==
    \A j \in DOMAIN trace : trace[j] \in later => \E i \in 1..(j - 1) : trace[i] \in first

Restrictions == Get(UserProfile, "dietaryRestrictions", {})

WeeklyBudget == Get(UserProfile, "weeklyBudget", 100)

ErrorObjects == {e \in Range(stderr) : "error" \in DOMAIN e}

\* the responses on standard output that carry ranked recommendations
RankedResponses == {d \in Range(stdout) : "total_eligible" \in DOMAIN d}

AllArtifacts == {"rf_model.pkl", "preprocessor.pkl", "feature_selector.pkl", "feature_names.json"}

\* C1: every item the Constraint Filter returns has is_vegan = 1 if "vegan" is
\* requested and the catalog has the column, likewise for gluten-free and
\* nut-free, and costs at most weeklyBudget / 21 if the catalog has a cost column.
FilterSoundness ==
    Called("filter_by_user_constraints") =>
        \A i \in DOMAIN eligible_foods.rows :
            LET item == eligible_foods.rows[i]
            IN  /\ ("vegan" \in Restrictions /\ "is_vegan" \in food_db.columns)
                      => item["is_vegan"] = 1
                /\ ("gluten-free" \in Restrictions /\ "is_glutenfree" \in food_db.columns)
                      => item["is_glutenfree"] = 1
                /\ ("nut-free" \in Restrictions /\ "is_nutfree" \in food_db.columns)
                      => item["is_nutfree"] = 1
                /\ "cost_per_serving" \in food_db.columns
                      => item["cost_per_serving"] * 21 <= WeeklyBudget * 100

\* C1 witness: a vegan request on a catalog with the flag and the cost column,
\* where the filter kept an item and dropped another.
FilterSoundnessWitness ==
    /\ Called("filter_by_user_constraints")
    /\ "vegan" \in Restrictions
    /\ {"is_vegan", "cost_per_serving"} \subseteq food_db.columns
    /\ Len(eligible_foods.rows) >= 1
    /\ Len(eligible_foods.rows) < Len(food_db.rows)

\* str.lower() on the restriction spellings
Lower(w) ==
    CASE w \in {"vegan", "Vegan", "VEGAN"} -> "vegan"
      [] w \in {"gluten-free", "Gluten-Free"} -> "gluten-free"
      [] w = "Gluten Free" -> "gluten free"
      [] w \in {"nut-free", "NUT-FREE"} -> "nut-free"
      [] w = "Nut Allergy" -> "nut allergy"

\* the flag column of a recognized restriction, by its slug or its label
FlagColumn(lowered) ==
    CASE lowered = "vegan" -> "is_vegan"
      [] lowered \in {"gluten-free", "gluten free"} -> "is_glutenfree"
      [] lowered \in {"nut-free", "nut allergy"} -> "is_nutfree"

\* C2: a recognized restriction in any letter case activates its filter: no item
\* whose flag is not set survives when the flag column exists.
CaseInsensitiveRestrictions ==
    Called("filter_by_user_constraints") =>
        \A w \in Restrictions :
            FlagColumn(Lower(w)) \in food_db.columns =>
                \A i \in DOMAIN eligible_foods.rows :
                    eligible_foods.rows[i][FlagColumn(Lower(w))] = 1

LoadFailed ==
    \/ artifacts_found # << >> /\ artifacts_found[1] # AllArtifacts
    \/ db_source = "missing"

AdjustedInUnitRange ==
    Called("adjust_for_goals") =>
        /\ Len(adjusted_probs) = Len(probs)
        /\ Len(adjusted_probs) = Len(eligible_foods.rows)
        /\ \A i \in DOMAIN adjusted_probs :
              /\ adjusted_probs[i] >= 0
              /\ adjusted_probs[i] <= 100
              /\ (adjusted_probs[i] > 0 /\ adjusted_probs[i] < 100)
                    => \E tenths \in {10, 12, 13} : adjusted_probs[i] * 10 = probs[i] * tenths

\* C4 witness: a vector with a value below 0 and a value above 1 was adjusted.
AdjustedInUnitRangeWitness ==
    /\ Called("adjust_for_goals")
    /\ \E i, j \in DOMAIN probs : probs[i] < 0 /\ probs[j] > 100

\* C5: the recommendations of a success response are in non-increasing order of
\* fit_score.
SortedByFitScore ==
    \A d \in RankedResponses :
        \A n \in 1..(Len(d.recommendations) - 1) :
            d.recommendations[n].fit_score >= d.recommendations[n + 1].fit_score

\* C5 witness: a response with two recommendations of different fit_score.
SortedByFitScoreWitness ==
    \E d \in RankedResponses :
        /\ Len(d.recommendations) >= 2
        /\ d.recommendations[1].fit_score > d.recommendations[2].fit_score

\* C6: for a positive k and n eligible items the response has min(k, n)
\* recommendations.
LengthIsMinOfKAndEligible ==
    \A d \in RankedResponses :
        top_k[1] >= 1 =>
            Len(d.recommendations) =
                (IF top_k[1] <= Len(eligible_foods.rows)
                 THEN top_k[1] ELSE Len(eligible_foods.rows))

\* C6 witness: top_k exceeds the number of eligible items and all of them are
\* returned.
LengthIsMinOfKAndEligibleWitness ==
    \E d \in RankedResponses :
        /\ top_k[1] > Len(eligible_foods.rows)
        /\ Len(eligible_foods.rows) >= 2
        /\ Len(d.recommendations) = Len(eligible_foods.rows)

\* C7: top_k is 5 when the request omits it, and no success response carries
\* recommendations selected with a top_k of zero or less.
PositiveTopKOnly ==
    /\ (top_k # << >> /\ "top_k" \notin DOMAIN user_input) => top_k[1] = 5
    /\ \A d \in RankedResponses : top_k[1] >= 1

NothingEligible ==
    Called("filter_by_user_constraints") /\ Len(eligible_foods.rows) = 0

\* C8: when the filter leaves no item, the process does no inference, writes no
\* error object, and ends with code 0 having written one response with an empty
\* recommendations list and a non-empty message.
EmptyEligibleResponse ==
    NothingEligible =>
        /\ ~Called("predict_proba")
        /\ ErrorObjects = {}
        /\ pc \in {"output", "exited"}
        /\ pc = "exited" =>
              /\ exit_code = << 0 >>
              /\ Len(stdout) = 1
              /\ stdout[1].recommendations = << >>
              /\ "message" \in DOMAIN stdout[1]
              /\ stdout[1].message # ""

\* C8 witness: the filter removed every item of a non-empty catalog and the
\* process has exited.
EmptyEligibleResponseWitness ==
    /\ NothingEligible
    /\ Len(food_db.rows) >= 1
    /\ pc = "exited"

\* C9: when standard input is not valid JSON the process exits non-zero, writes
\* nothing to standard output and writes an invalid-input error object to
\* standard error.
MalformedRequestRejected ==
    input_json.kind = "malformed" =>
        /\ pc = "exited"
        /\ exit_code # << >> /\ exit_code[1] # 0
        /\ stdout = << >>
        /\ \E e \in ErrorObjects : e.error = "Invalid JSON input"

\* C9 witness: malformed input was read and the process has exited.
MalformedRequestRejectedWitness ==
    /\ input_json.kind = "malformed"
    /\ Called("json.loads")
    /\ pc = "exited"

\* C10: when any of the four artifacts is absent the process reports an error on
\* standard error, exits non-zero, and neither filters, scores nor writes a
\* response.
MissingArtifactIsFatal ==
    (artifacts_found # << >> /\ artifacts_found[1] # AllArtifacts) =>
        /\ pc = "exited"
        /\ exit_code # << >> /\ exit_code[1] # 0
        /\ \E e \in ErrorObjects : e.error = "Model files not found. Run train.py first."
        /\ ~Called("filter_by_user_constraints")
        /\ ~Called("predict_proba")
        /\ stdout = << >>

\* C10 witness: only the feature-name manifest is absent and the process has
\* exited.
MissingArtifactIsFatalWitness ==
    /\ artifacts_found = << AllArtifacts \ {"feature_names.json"} >>
    /\ pc = "exited"

\* C11: the processed catalog is used whenever it is there, the raw one exactly
\* when the processed one is absent and the raw one is there, and with neither
\* the process reports an error on standard error and exits non-zero without
\* filtering or scoring.
CatalogFallback ==
    catalogs_found # << >> =>
        LET found == catalogs_found[1]
        IN  /\ "processed_data.csv" \in found => db_source = "processed_data.csv"
            /\ db_source = "usda-foods.csv"
                  <=> ("processed_data.csv" \notin found /\ "usda-foods.csv" \in found)
            /\ found = {} =>
                  /\ pc = "exited"
                  /\ exit_code # << >> /\ exit_code[1] # 0
                  /\ \E e \in ErrorObjects : e.error = "Food database not found"
                  /\ ~Called("filter_by_user_constraints")
                  /\ ~Called("predict_proba")
                  /\ stdout = << >>

\* C11 witness: only the raw catalog was there, it was read, and the run ended
\* with a response.
CatalogFallbackWitness ==
    /\ catalogs_found = << {"usda-foods.csv"} >>
    /\ db_source = "usda-foods.csv"
    /\ pc = "exited"
    /\ stdout # << >>

\* the positions of a run, in the order main() goes through them
Steps == << "read_input", "get_top_k", "load_models", "load_food_database", "filter",
            "materialize", "infer", "adjust_for_goals", "rank", "output", "exited" >>

StepOf(p) == CHOOSE i \in DOMAIN Steps : Steps[i] = p

\* at every position before the exit some step can be taken (the
\* materialization has no condition but its position)
CanStep ==
    /\ pc \in Range(Steps)
    /\ pc = "read_input" => ENABLED (ReadInputTty \/ ReadInputJson \/ ReadInputMalformed)
    /\ pc = "get_top_k" => ENABLED (GetTopK \/ GetTopKFails)
    /\ pc = "load_models" => ENABLED (LoadModels \/ LoadModelsMissing)
    /\ pc = "load_food_database" => ENABLED (LoadProcessed \/ LoadRaw \/ LoadDatabaseMissing)
    /\ pc = "filter" => ENABLED (Filter \/ FilterFails)
    /\ pc = "infer" => ENABLED (Infer \/ InferFails)
    /\ pc = "adjust_for_goals" => ENABLED AdjustForGoals
    /\ pc = "rank" => ENABLED Rank
    /\ pc = "output" => ENABLED Output

\* the outcome of a run: no exit code before the exit; at the exit, code 0 with
\* one response document on standard output and no error object, or code 1
\* with an error object on standard error and nothing on standard output
Outcome ==
    /\ pc # "exited" => exit_code = << >>
    /\ pc = "exited" =>
          /\ exit_code \in {<< 0 >>, << 1 >>}
          /\ exit_code = << 0 >> <=> (Len(stdout) = 1 /\ ErrorObjects = {})
          /\ exit_code = << 1 >> <=> (ErrorObjects # {} /\ stdout = << >>)

\* C12: a run always goes on towards its exit (every step moves to a later
\* position and some step can be taken until the exit), and it exits with code
\* 0 or 1; it exits 0 exactly when one response document is on standard output
\* and no error object was written, and 1 exactly when an error object is on
\* standard error and standard output is empty, whatever the failure.
OutcomeExclusive ==
    /\ [](Outcome /\ CanStep)
    /\ [][StepOf(pc') > StepOf(pc)]_vars

\* C12 witness: a request was read, scoring failed, and the process has exited
\* with code 1.
OutcomeExclusiveWitness ==
    /\ input_json.kind = "json"
    /\ \E e \in ErrorObjects : e.error = "Prediction failed"
    /\ pc = "exited"
    /\ exit_code = << 1 >>

\* the multiplier of the rule table for one item, in tenths
TableTenths(goal, calories, protein, sodium, fiber) ==
    IF goal = "Weight Loss" /\ calories < 300 /\ protein > 15 THEN 12
    ELSE IF goal = "Muscle Gain" /\ protein > 20 THEN 13
    ELSE IF goal = "Heart Health" /\ sodium < 500 /\ fiber > 5 THEN 12
    ELSE 10

DrawnFromEligible ==
    \A d \in RankedResponses :
        LET eligible == filter_by_user_constraints(food_db, UserProfile)
        IN  /\ d.total_eligible = Len(eligible.rows)
            /\ Len(eligible_foods.rows) = Len(eligible.rows)
            /\ \A i \in DOMAIN eligible.rows :
                  Restrict(eligible_foods.rows[i], eligible.columns) = eligible.rows[i]
            /\ Len(top_indices) = Len(d.recommendations)
            /\ \A m, n \in DOMAIN top_indices : top_indices[m] = top_indices[n] => m = n
            /\ \A n \in DOMAIN top_indices :
                  /\ top_indices[n] \in DOMAIN eligible.rows
                  /\ LET food == eligible.rows[top_indices[n]]
                          rec == d.recommendations[n]
                     IN  /\ rec.name = food["description"]
                         /\ rec.nutrition.calories = food["calories"]
                         /\ rec.nutrition.protein = food["protein_g"]
                         /\ rec.fit_score = adjusted_probs[top_indices[n]]

\* C15 witness: two rows were eligible and top_k = 1 selected the second of
\* them: total_eligible is 2 next to a single recommendation.
DrawnFromEligibleWitness ==
    \E d \in RankedResponses :
        /\ top_k = << 1 >>
        /\ d.total_eligible = 2
        /\ Len(d.recommendations) = 1
        /\ top_indices = << 2 >>

\* C16: every recommendation's confidence is "high" above 0.8, "medium" above
\* 0.6 and up to 0.8, "moderate" up to 0.6: both thresholds are strict.
ConfidenceTiers ==
    \A d \in RankedResponses :
        \A n \in DOMAIN d.recommendations :
            LET rec == d.recommendations[n]
            IN  /\ rec.confidence \in {"high", "medium", "moderate"}
                /\ rec.confidence = "high" <=> rec.fit_score > 80
                /\ rec.confidence = "medium" <=> (rec.fit_score > 60 /\ rec.fit_score <= 80)
                /\ rec.confidence = "moderate" <=> rec.fit_score <= 60

\* C16 witness: a response with a recommendation of fit_score exactly 0.8 that
\* is "medium" and one of exactly 0.6 that is "moderate".
ConfidenceTiersWitness ==
    \E d \in RankedResponses :
        \E m, n \in DOMAIN d.recommendations :
            /\ d.recommendations[m].fit_score = 80
            /\ d.recommendations[m].confidence = "medium"
            /\ d.recommendations[n].fit_score = 60
            /\ d.recommendations[n].confidence = "moderate"

\* the five reasons in their fixed order
ReasonLabels == << "High protein", "High fiber", "Low calorie", "Low sugar", "Budget-friendly" >>

\* the condition of a reason, on the item as the recommendation shows it
ReasonHolds(label, rec) ==
    CASE label = "High protein" -> rec.nutrition.protein > 15
      [] label = "High fiber" -> rec.nutrition.fiber > 5
      [] label = "Low calorie" -> rec.nutrition.calories < 200
      [] label = "Low sugar" -> rec.nutrition.sugars < 5
      [] label = "Budget-friendly" -> rec.cost < 200

\* C17: the reasons of every recommendation are, in the fixed order, one entry
\* for each of protein > 15, fiber > 5, calories < 200, sugars < 5, cost < 2
\* that holds for the item, and nothing else.
ReasonsInFixedOrder ==
    \A d \in RankedResponses :
        \A n \in DOMAIN d.recommendations :
            LET rec == d.recommendations[n]
            IN  [k \in DOMAIN rec.reasons |-> rec.reasons[k][1]]
                    = SelectSeq(ReasonLabels, LAMBDA label : ReasonHolds(label, rec))

\* C17 witness: an item with protein 22, fiber 6, calories 180, sugars 3 and
\* cost 1.50 was recommended with all five reasons, next to an item with fewer.
ReasonsInFixedOrderWitness ==
    \E d \in RankedResponses :
        \E m, n \in DOMAIN d.recommendations :
            /\ d.recommendations[m].nutrition.protein = 22
            /\ d.recommendations[m].nutrition.sugars = 3
            /\ d.recommendations[m].cost = 150
            /\ Len(d.recommendations[m].reasons) = 5
            /\ d.recommendations[m].reasons[1][1] = "High protein"
            /\ d.recommendations[m].reasons[5][1] = "Budget-friendly"
            /\ d.recommendations[n].nutrition.sugars = 5
            /\ Len(d.recommendations[n].reasons) = 1

\* C18: for a positive top_k, recommended items of equal adjusted probability
\* come in the order of their rows in the eligible table, and of two items of
\* equal adjusted probability of which only one is recommended, it is the one of
\* the earlier row.
TiesInCatalogOrder ==
    \A d \in RankedResponses :
        top_k[1] >= 1 =>
            /\ \A m, n \in DOMAIN top_indices :
                  (m < n /\ adjusted_probs[top_indices[m]] = adjusted_probs[top_indices[n]])
                      => top_indices[m] < top_indices[n]
            /\ \A i \in Range(top_indices) :
                  \A j \in DOMAIN adjusted_probs \ Range(top_indices) :
                      adjusted_probs[i] = adjusted_probs[j] => i < j

\* C19: once the catalog is loaded no step of the run changes it: the filter,
\* the materialization of the missing feature columns and every later step
\* leave its rows, columns and values as they were loaded.
CatalogNeverMutated ==
    [][db_source # "none" => food_db' = food_db]_vars

\* C19 witness: the raw catalog was loaded without the cost and flag columns, so
\* the filter selected nothing away from it, the materialization added the
\* missing columns to the eligible table, and the run ended with a response
\* while the catalog still has the columns it was loaded with.
CatalogNeverMutatedWitness ==
    /\ pc = "exited"
    /\ RankedResponses # {}
    /\ db_source = "usda-foods.csv"
    /\ ~Masked(food_db, UserProfile)
    /\ Len(eligible_foods.rows) = Len(food_db.rows)
    /\ eligible_foods.columns # food_db.columns
    /\ "cost_per_serving" \in eligible_foods.columns \ food_db.columns

\* a flag check is active when the restriction is requested in a spelling the
\* filter looks for and the catalog has the flag column
ActiveFlag(spellings, col) == spellings \cap Restrictions # {} /\ col \in food_db.columns

\* the item passes every active check
PassesActiveChecks(item) ==
    /\ ActiveFlag({"Vegan", "vegan"}, "is_vegan") => item["is_vegan"] = 1
    /\ ActiveFlag({"Gluten Free", "gluten-free"}, "is_glutenfree") => item["is_glutenfree"] = 1
    /\ ActiveFlag({"Nut Allergy", "nut-free"}, "is_nutfree") => item["is_nutfree"] = 1
    /\ "cost_per_serving" \in food_db.columns
          => item["cost_per_serving"] * 21
                <= 100 * (IF "weeklyBudget" \in DOMAIN UserProfile
                          THEN UserProfile["weeklyBudget"] ELSE 100)

\* the item passes every check a restriction asks for in any letter case
PassesAnyCase(item) ==
    /\ \A w \in Restrictions :
          FlagColumn(Lower(w)) \in food_db.columns => item[FlagColumn(Lower(w))] = 1
    /\ "cost_per_serving" \in food_db.columns
          => item["cost_per_serving"] * 21 <= 100 * WeeklyBudget

\* C20: the filter's output is exactly the rows of the catalog, in catalog
\* order, that pass every active check: a restriction whose flag column is
\* absent drops nothing, the cost check is skipped without a cost column, and
\* the cost bound is weeklyBudget / 21 with 100 for an omitted weeklyBudget. No
\* row that passes the checks, in whatever letter case they are asked for, is
\* dropped.
FilterCompleteness ==
    Called("filter_by_user_constraints") =>
        /\ eligible_foods.columns = food_db.columns
        /\ eligible_foods.rows = SelectSeq(food_db.rows, PassesActiveChecks)
        /\ \A i \in DOMAIN food_db.rows :
              PassesAnyCase(food_db.rows[i]) => food_db.rows[i] \in Range(eligible_foods.rows)

\* C20 witness: "vegan" is requested of a catalog without the is_vegan column,
\* the profile omits weeklyBudget, the catalog has a cost column, and both rows
\* of the catalog are eligible.
FilterCompletenessWitness ==
    /\ Called("filter_by_user_constraints")
    /\ "vegan" \in Restrictions
    /\ "is_vegan" \notin food_db.columns
    /\ "cost_per_serving" \in food_db.columns
    /\ "weeklyBudget" \notin DOMAIN UserProfile
    /\ Len(food_db.rows) = 2
    /\ eligible_foods.rows = food_db.rows

\* the value of a base column of an item, 0 where the table lacks the column
BaseValue(item, col) == IF col \in DOMAIN item THEN item[col] ELSE 0

\* what the materialization owes for a feature of an item of the filtered table
Populated(item, col) ==
    IF col \in DOMAIN item THEN item[col]
    ELSE IF col = "nutrient_density"
         THEN ((BaseValue(item, "protein_g") + BaseValue(item, "fiber_g")) * 1000)
                  \div (BaseValue(item, "calories") + 1)
    ELSE IF col = "sugar_to_carb_ratio"
         THEN (BaseValue(item, "sugars_g") * 1000) \div (BaseValue(item, "carbs_g") + 1)
    ELSE IF col = "food_category" THEN "unknown"
    ELSE 0

\* C21: the materialization of a non-empty filtered table gives every item all
\* 18 numeric, 1 categorical and 3 binary features; a column that was present
\* keeps its values, a missing plain numeric or binary column is 0, a missing
\* category is "unknown", and a missing derived column is (protein + fiber) /
\* (calories + 1), respectively sugars / (carbs + 1), of the item's base
\* columns, with 0 for a base column that was missing.
MaterializerPostcondition ==
    [][pc = "materialize" =>
          /\ Len(numerical_features) = 18
          /\ Len(categorical_features) = 1
          /\ Len(binary_features) = 3
          /\ eligible_foods'.columns = eligible_foods.columns \cup FeatureColumns
          /\ Len(eligible_foods'.rows) = Len(eligible_foods.rows)
          /\ \A i \in DOMAIN eligible_foods.rows :
                /\ DOMAIN eligible_foods'.rows[i] = eligible_foods'.columns
                /\ \A col \in eligible_foods'.columns :
                      eligible_foods'.rows[i][col] = Populated(eligible_foods.rows[i], col)]_vars

\* C21 witness: a table with protein but without the calories, fiber and
\* nutrient_density columns was materialized: the item with 22 g of protein
\* has calories 0, fiber 0 and a nutrient density of 22.
MaterializerPostconditionWitness ==
    /\ pc = "infer"
    /\ "protein_g" \in food_db.columns
    /\ {"calories", "fiber_g", "nutrient_density"} \cap food_db.columns = {}
    /\ \E i \in DOMAIN eligible_foods.rows :
          /\ eligible_foods.rows[i]["protein_g"] = 22
          /\ eligible_foods.rows[i]["calories"] = 0
          /\ eligible_foods.rows[i]["nutrient_density"] = 22000

\* C22: in a success response with recommendations user_goal is a string: the
\* profile's primaryGoal when one is supplied, "General Health" when the key is
\* missing or null; without a goal every fit_score is the raw probability
\* brought into [0, 1].
UserGoalLabel ==
    \A d \in RankedResponses :
        d.recommendations # << >> =>
            LET absent == \/ "primaryGoal" \notin DOMAIN UserProfile
                          \/ UserProfile["primaryGoal"] = None
            IN  /\ d.user_goal # None
                /\ ~absent => d.user_goal = UserProfile["primaryGoal"]
                /\ absent =>
                      /\ d.user_goal = "General Health"
                      /\ \A n \in DOMAIN d.recommendations :
                            d.recommendations[n].fit_score
                                = Max(0, Min(100, probs[top_indices[n]]))

\* the request is valid JSON the pipeline cannot use: its top-level value is
\* not an object, or weeklyBudget or dietaryRestrictions of its profile is null
UnusableRequest ==
    /\ input_json.kind = "json"
    /\ \/ ~IsDict(user_input)
       \/ "weeklyBudget" \in DOMAIN UserProfile /\ IsNone(UserProfile["weeklyBudget"])
       \/ "dietaryRestrictions" \in DOMAIN UserProfile
             /\ IsNone(UserProfile["dietaryRestrictions"])

\* C23 as stated: a run on an unusable request ends with code 1, a 'Prediction
\* failed' error object on standard error, nothing on standard output and no
\* invalid-JSON error.
UnusableRequestPredictionFailed ==
    (UnusableRequest /\ pc = "exited") =>
        /\ exit_code = << 1 >>
        /\ stdout = << >>
        /\ \E e \in ErrorObjects : e.error = "Prediction failed"
        /\ \A e \in ErrorObjects : e.error # "Invalid JSON input"

\* C23: a run on an unusable request never scores, never builds or writes a
\* response and never reports invalid JSON; it ends with code 1 and one error
\* object, which is 'Prediction failed' unless an artifact or the catalog was
\* missing, a failure that is reported before the request's values are used.
UnusableRequestRejected ==
    UnusableRequest =>
        /\ ~Called("predict_proba")
        /\ result = EmptyDict
        /\ stdout = << >>
        /\ \A e \in ErrorObjects : e.error # "Invalid JSON input"
        /\ pc = "exited" =>
              /\ exit_code = << 1 >>
              /\ Cardinality(ErrorObjects) = 1
              /\ ~LoadFailed => \E e \in ErrorObjects : e.error = "Prediction failed"
              /\ ~IsDict(user_input) => \E e \in ErrorObjects : e.error = "Prediction failed"

\* C23 witness: a request whose weeklyBudget is null was read, the artifacts
\* and the catalog were loaded, and the run has ended with 'Prediction failed'.
UnusableRequestRejectedWitness ==
    /\ UnusableRequest
    /\ IsDict(user_input)
    /\ "weeklyBudget" \in DOMAIN UserProfile
    /\ Called("load_food_database")
    /\ ~LoadFailed
    /\ pc = "exited"
    /\ \E e \in ErrorObjects : e.error = "Prediction failed" /\ e.detail = "TypeError"

====
